---- MODULE Spec2Model ----
(***************************************************************************)
(* Model of src/github_actions.py: the cached GitHub Action event, tagged  *)
(* pull-request comments, the pull-request title check, the draft status   *)
(* synchronisation and the lint runner.                                    *)
(*                                                                         *)
(* Python strings are modelled as sequences of one-character strings, so   *)
(* that startswith, endswith, slicing, re.sub and re.search are computed   *)
(* character by character as the code computes them.                       *)
(***************************************************************************)
EXTENDS Integers, Sequences, FiniteSets

VARIABLES
    eventFile,   \* parsed content of the file named by GITHUB_EVENT_PATH
    event,       \* CachedGitHubActionEvent._event
    fileReads,   \* number of times the event file was opened in this process
    evCalls,     \* number of GH_EVENT() calls made directly (history)
    comments,    \* issue comments of the pull request, oldest first (bodies)
    postCalls,   \* history: one record per post_tagged_comment invocation
    prTitle,     \* the pull request's title as the API reports it
    titleRuns,   \* history: one record per check_pr_title invocation
    statuses,    \* statuses of the head commit, most recent first
    wipRuns,     \* history: one record per check_wip invocation
    tree,        \* files of the linted source tree (paths)
    tree0,       \* history: the tree when lint was entered
    tmpExists,   \* whether the directory made by mkdtemp() exists
    tmpFiles,    \* files inside the temporary directory (paths relative to it)
    lintPc,      \* position of lint: "idle", "loop", "returned", "raised"
    todo,        \* files the glob iterators have still to yield
    checksApi,   \* lint's checks_api argument
    annotations, \* lint's annotations list
    bad,         \* lint's bad dictionary: file -> list of linter names
    posts,       \* check-run POSTs issued by annotate_check
    lintRet,     \* lint's return value (-1 before it returns)
    lintLog      \* history: linter runs of this lint invocation

evVars == <<eventFile, event, fileReads, evCalls>>
cmVars == <<comments, postCalls>>
tiVars == <<prTitle, titleRuns>>
wipVars == <<statuses, wipRuns>>
lintVars == <<tree, tree0, tmpExists, tmpFiles, lintPc, todo, checksApi,
              annotations, bad, posts, lintRet, lintLog>>
vars == <<evVars, cmVars, tiVars, wipVars, lintVars>>

(***************************************************************************)
(* Bounds of the model.                                                    *)
(***************************************************************************)
MaxEventCalls == 4
MaxInitComments == 2
MaxPostCalls == 3
MaxInitStatuses == 2
MaxWipRuns == 2
MaxOtherStatuses == 1
MaxTreeFiles == 3
MaxTitleTokens == 4

(***************************************************************************)
(* String helpers (str.startswith, str.endswith, str.join).                *)
(***************************************************************************)
StartsWith(s, p) ==
    /\ Len(s) >= Len(p)
    /\ SubSeq(s, 1, Len(p)) = p

EndsWith(s, p) ==
    /\ Len(s) >= Len(p)
    /\ SubSeq(s, Len(s) - Len(p) + 1, Len(s)) = p

RECURSIVE Join(_, _)
Join(sep, parts) ==
    IF parts = <<>> THEN <<>>
    ELSE IF Len(parts) = 1 THEN parts[1]
    ELSE parts[1] \o sep \o Join(sep, Tail(parts))

UpperChars == {"A", "B", "C", "D", "E", "F", "G", "H", "I", "J", "K", "L", "M",
               "N", "O", "P", "Q", "R", "S", "T", "U", "V", "W", "X", "Y", "Z"}
LowerChars == {"a", "b", "c", "d", "e", "f", "g", "h", "i", "j", "k", "l", "m",
               "n", "o", "p", "q", "r", "s", "t", "u", "v", "w", "x", "y", "z"}
DigitChars == {"0", "1", "2", "3", "4", "5", "6", "7", "8", "9"}
NonZeroDigitChars == DigitChars \ {"0"}

(***************************************************************************)
(* The event payload.  Only the fields the module reads and that vary are  *)
(* kept: pull_request.labels[].name and pull_request.title.  The           *)
(* repository name, the pull-request number and the head sha identify the  *)
(* one pull request and head commit the other variables describe.          *)
(* kind is "None" for the Python value None (a JSON null) and "dict" for   *)
(* a JSON object.                                                          *)
(***************************************************************************)
NoneValue == [kind |-> "None", labels |-> {}, title |-> <<>>]

WIP_CONTEXT == "Draft"
WIP_LABEL == "draft"

LabelNames == {WIP_LABEL, "Draft", "bug"}
CachedTitles == {<<"A", "B", "-", "1", ":", " ", "x">>, <<"w", "i", "p">>, <<>>}

EventPayloads ==
    [kind : {"dict"}, labels : SUBSET LabelNames, title : CachedTitles]

(***************************************************************************)
(* CachedGitHubActionEvent.__call__: the file is read when _event is None. *)
(***************************************************************************)
NeedsRead(ev) == ev = NoneValue

GhEventValue(ev, file) == IF NeedsRead(ev) THEN file ELSE ev

GhEventReads(ev) == IF NeedsRead(ev) THEN 1 ELSE 0

\* A direct call GH_EVENT().
GhEventCall ==
    /\ evCalls < MaxEventCalls
    /\ event' = GhEventValue(event, eventFile)
    /\ fileReads' = fileReads + GhEventReads(event)
    /\ evCalls' = evCalls + 1
    /\ UNCHANGED <<eventFile, cmVars, tiVars, wipVars, lintVars>>

\* The GH_EVENT() calls of a handler that goes on to subscript the payload:
\* the handlers are run on a "dict" payload, which the first call caches.
HandlerLoadsEvent ==
    /\ eventFile.kind = "dict"
    /\ event' = GhEventValue(event, eventFile)
    /\ fileReads' = fileReads + GhEventReads(event)
    /\ UNCHANGED <<eventFile, evCalls>>

(***************************************************************************)
(* post_tagged_comment.                                                    *)
(***************************************************************************)
TagChars == UpperChars \cup LowerChars \cup DigitChars \cup {"_", "-"}

\* re.sub('[^a-zA-Z0-9_-]', '_', tag)
NormalizeChar(c) == IF c \in TagChars THEN c ELSE "_"

Normalize(tag) == [i \in 1..Len(tag) |-> NormalizeChar(tag[i])]

MarkerOpen == <<"<", "!", "-", "-", " ", "C", "W", "T", "a", "g", ":", " ">>
MarkerClose == <<" ", "-", "-", ">">>

\* f"<!-- CWTag: {tag} -->"
HtmlTag(tag) == MarkerOpen \o tag \o MarkerClose

\* f"{html_tag}\n{body}"
FullBody(html_tag, body) == html_tag \o <<"\n">> \o body

\* Mutant of CommentMatches: the whole body is compared with the marker.
CommentMatchesWhole(body, html_tag) == body = html_tag

\* comment.body.startswith(html_tag)
CommentMatches(body, html_tag) == StartsWith(body, html_tag)

\* Mutant of UpToDate: the comparison is inverted.
UpToDateInverted(body, full_body) == body # full_body

\* comment.body == full_body
UpToDate(body, full_body) == body = full_body

\* The for loop over pr.get_issue_comments(), from comment i on: the first
\* matching comment is edited unless up to date, and the loop breaks.
RECURSIVE ScanComments(_, _, _, _)
ScanComments(cs, i, html_tag, full_body) ==
    IF i > Len(cs)
    THEN [found |-> FALSE, comments |-> cs, calls |-> <<>>]
    ELSE IF CommentMatches(cs[i], html_tag)
    THEN IF UpToDate(cs[i], full_body)
         THEN [found |-> TRUE, comments |-> cs, calls |-> <<>>]
         ELSE [found |-> TRUE,
               comments |-> [cs EXCEPT ![i] = full_body],
               calls |-> <<[op |-> "edit", index |-> i]>>]
    ELSE ScanComments(cs, i + 1, html_tag, full_body)

\* post_tagged_comment(tag, body) on the comment list cs: the new list and
\* the write API calls issued.
PostTagged(cs, tag, body) ==
    LET html_tag == HtmlTag(Normalize(tag))
        full_body == FullBody(html_tag, body)
        scan == ScanComments(cs, 1, html_tag, full_body)
    IN  IF scan.found
        THEN [comments |-> scan.comments, calls |-> scan.calls]
        ELSE [comments |-> Append(cs, full_body),
              calls |-> <<[op |-> "create", index |-> Len(cs) + 1]>>]

\* Number of comments whose body starts with the marker of the tag.
CountTagged(cs, tag) ==
    Cardinality({i \in 1..Len(cs) : StartsWith(cs[i], HtmlTag(Normalize(tag)))})

Tags == {<<"j", "i", "r", "a">>, <<"a">>, <<"a", " ", "b">>, <<"a", "_", "b">>}
Bodies == {<<"x">>, <<"y">>}

PostTaggedComment(tag, body) ==
    /\ Len(postCalls) < MaxPostCalls
    /\ HandlerLoadsEvent
    /\ LET r == PostTagged(comments, tag, body)
       IN  /\ comments' = r.comments
           /\ postCalls' = Append(postCalls,
                  [tag |-> tag, body |-> body, calls |-> r.calls,
                   before |-> comments, after |-> r.comments])
    /\ UNCHANGED <<tiVars, wipVars, lintVars>>

(***************************************************************************)
(* check_pr_title.  re.search with the pattern of line 124: at the start   *)
(* of the title, zero or more times a key, a comma and a space; then a     *)
(* key; then a colon and a space.  A key is two or more of A-Z, a hyphen,  *)
(* one of 1-9 and any number of 0-9.  The first group spans everything     *)
(* before the colon.  The matcher below follows the pattern piece by       *)
(* piece; each piece yields the set of positions a match of it can end at  *)
(* (the position after its last character), which is what a backtracking   *)
(* matcher explores.                                                       *)
(***************************************************************************)
JIRA_URL ==
    <<"h", "t", "t", "p", "s", ":", "/", "/", "y", "a", "b", "b", "a", ".",
      "a", "t", "l", "a", "s", "s", "i", "a", "n", ".", "n", "e", "t", "/",
      "b", "r", "o", "w", "s", "e">>

JiraTag == <<"j", "i", "r", "a">>

CharAt(s, i, set) == i >= 1 /\ i <= Len(s) /\ s[i] \in set

\* Mutant of UpperEnds: one letter is enough for a key.
UpperEndsOneLetter(s, i) ==
    {j \in (i + 1)..(Len(s) + 1) : \A k \in i..(j - 1) : s[k] \in UpperChars}

\* [A-Z]{2,} from position i
UpperEnds(s, i) ==
    {j \in (i + 2)..(Len(s) + 1) : \A k \in i..(j - 1) : s[k] \in UpperChars}

\* any number of 0-9 from position i
DigitEnds(s, i) ==
    {j \in i..(Len(s) + 1) : \A k \in i..(j - 1) : s[k] \in DigitChars}

\* a key, [A-Z]{2,}-[1-9][0-9]* , from position i
KeyEnds(s, i) ==
    UNION {IF CharAt(s, u, {"-"}) /\ CharAt(s, u + 1, NonZeroDigitChars)
           THEN DigitEnds(s, u + 2)
           ELSE {} : u \in UpperEnds(s, i)}

\* a key followed by a comma and a space, from position i
KeyCommaEnds(s, i) ==
    {j + 2 : j \in {k \in KeyEnds(s, i) :
                       CharAt(s, k, {","}) /\ CharAt(s, k + 1, {" "})}}

\* the starred group: the positions reachable by zero or more repetitions
RECURSIVE StarEnds(_, _, _)
StarEnds(s, frontier, seen) ==
    IF frontier = {} THEN seen
    ELSE LET next == UNION {KeyCommaEnds(s, p) : p \in frontier}
         IN  StarEnds(s, next \ (seen \cup frontier), seen \cup frontier)

\* The positions group(1) can end at in a match anchored at the start.
TitleMatchEnds(title) ==
    {q \in UNION {KeyEnds(title, p) : p \in StarEnds(title, {1}, {})} :
        CharAt(title, q, {":"}) /\ CharAt(title, q + 1, {" "})}

Max(S) == CHOOSE x \in S : \A y \in S : y <= x

\* re.findall("[A-Z]{2,}-[1-9][0-9]*", s): leftmost, greedy, non-overlapping
RECURSIVE FindAllKeys(_, _)
FindAllKeys(s, i) ==
    IF i > Len(s) THEN <<>>
    ELSE IF KeyEnds(s, i) = {} THEN FindAllKeys(s, i + 1)
    ELSE LET e == Max(KeyEnds(s, i))
         IN  <<SubSeq(s, i, e - 1)>> \o FindAllKeys(s, e)

\* f"[{jk}]({JIRA_URL}/{jk})"
JiraLink(jk) == <<"[">> \o jk \o <<"]", "(">> \o JIRA_URL \o <<"/">> \o jk \o <<")">>

JiraMessage(jira_keys) ==
    <<"C", "o", "n", "n", "e", "c", "t", "e", "d", " ", "J", "i", "r", "a",
      ":", " ">>
    \o Join(<<",", " ">>, [i \in 1..Len(jira_keys) |-> JiraLink(jira_keys[i])])

\* Lines 124-134 of check_pr_title on a title: the return value and, when
\* the title matches, the message to post.
TitleVerdict(title) ==
    LET ends == TitleMatchEnds(title)
    IN  IF ends = {}
        THEN [ret |-> 1, msg |-> <<>>]
        ELSE [ret |-> 0,
              msg |-> JiraMessage(
                          FindAllKeys(SubSeq(title, 1, Max(ends) - 1), 1))]

\* check_pr_title with verdict v on the comment list cs: the return value,
\* the new comment list, whether post_tagged_comment was called and its API
\* writes.
ApplyVerdict(cs, title, v) ==
    IF v.ret = 1
    THEN [title |-> title, ret |-> 1, posted |-> FALSE, calls |-> <<>>,
          before |-> cs, after |-> cs]
    ELSE LET r == PostTagged(cs, JiraTag, v.msg)
         IN  [title |-> title, ret |-> 0, posted |-> TRUE, calls |-> r.calls,
              before |-> cs, after |-> r.comments]

CheckTitle(cs, title) == ApplyVerdict(cs, title, TitleVerdict(title))

\* The titles of test_pr_title.
TestTitles == <<
    <<"J", "i", "R", "A", "-", "1", "2", "3", ":", " ", "T", "h", "i", "s",
      " ", "i", "s", " ", "a", " ", "t", "i", "t", "l", "e">>,
    <<"J", "-", "1", "2", ":", " ", "A", " ", "t", "i", "t", "l", "e">>,
    <<"J", "I", "R", "A", "-", "0", "1", ":", " ", "T", "h", "i", "s", " ",
      "i", "s", " ", "a", " ", "t", "i", "t", "l", "e">>,
    <<" ", "J", "I", "R", "A", "-", "4", "2", ":", " ", "T", "h", "i", "s",
      " ", "i", "s", " ", "a", " ", "t", "i", "t", "l", "e">>,
    <<"J", "I", "R", "A", "-", "4", "2", ":", "T", "h", "i", "s", " ", "i",
      "s", " ", "a", " ", "t", "i", "t", "l", "e">>,
    <<"J", "I", "R", "A", "-", "4", "3", ":", " ", "t", "h", "i", "s", " ",
      "i", "s", " ", "a", " ", "t", "i", "t", "l", "e">>,
    <<"J", "I", "R", "A", "-", "1", ",", " ", "J", "A", "-", "2", ":", " ",
      "M", "u", "l", "t", "i", "p", "l", "e", " ", "i", "s", "s", "u", "e",
      "s">>,
    <<"J", "I", "R", "A", "-", "1", ",", " ", "J", "I", "R", "A", "-", "2",
      ",", " ", "J", "I", "R", "A", "-", "3", ":", " ", "M", "u", "l", "t",
      "i", "p", "l", "e", " ", "i", "s", "s", "u", "e", "s">> >>

\* What lines 124-134 give for each title of test_pr_title.
TestVerdicts == [i \in 1..Len(TestTitles) |-> TitleVerdict(TestTitles[i])]

\* check_pr_title() as the entry point calls it: title is None and the title
\* is fetched from the API (get_pr_title; the cached title is only printed).
CheckPrTitle ==
    /\ titleRuns = <<>>
    /\ HandlerLoadsEvent
    /\ LET r == CheckTitle(comments, prTitle)
       IN  /\ comments' = r.after
           /\ titleRuns' = <<r>>
    /\ UNCHANGED <<postCalls, prTitle, wipVars, lintVars>>

\* test_pr_title(): check_pr_title(title, lambda x: None) for each test title,
\* in order; the runs so far are in runs and the comment list is cs.
RECURSIVE RunTestTitles(_, _)
RunTestTitles(runs, cs) ==
    IF Len(runs) = Len(TestTitles) THEN runs
    ELSE LET i == Len(runs) + 1
             r == ApplyVerdict(cs, TestTitles[i], TestVerdicts[i])
         IN  RunTestTitles(Append(runs, r), r.after)

\* test_pr_title reads the event only when a title matches and a comment is
\* posted; TestTitles holds matching titles.
TestPrTitle ==
    /\ titleRuns = <<>>
    /\ HandlerLoadsEvent
    /\ LET runs == RunTestTitles(<<>>, comments)
       IN  /\ titleRuns' = runs
           /\ comments' = runs[Len(runs)].after
    /\ UNCHANGED <<postCalls, prTitle, wipVars, lintVars>>

(***************************************************************************)
(* get_status and check_wip.  A status is [context, state]; the API lists  *)
(* a commit's statuses most recent first, and create_status adds the most  *)
(* recent one.  Python's None/True/False are the strings "None", "True"    *)
(* and "False", so that is_wip != was_wip compares a bool with None as     *)
(* Python does (they differ).                                              *)
(***************************************************************************)
StatusStates == {"error", "failure", "pending", "success"}
Contexts == {WIP_CONTEXT, "ci"}

PyBool(b) == IF b THEN "True" ELSE "False"

\* Mutant of IsContext: the context is not compared.
IsAnyContext(st, context) == st.context = st.context

\* st.context == context
IsContext(st, context) == st.context = context

\* get_status(context) on the status list sts, from index i on: the index of
\* the first status of that context, 0 for None.
RECURSIVE GetStatus(_, _, _)
GetStatus(sts, i, context) ==
    IF i > Len(sts) THEN 0
    ELSE IF IsContext(sts[i], context) THEN i
    ELSE GetStatus(sts, i + 1, context)

\* Mutant of WasWip: only "failure" counts as failing.
WasWipFailureOnly(st) == PyBool(st.state = "failure")

\* was_wip = was_wip.state != "success"
WasWip(st) == PyBool(st.state # "success")

\* get_pr_labels(): the label names of the cached event
GetPrLabels(ev) == ev.labels

\* is_wip = WIP_LABEL in get_pr_labels()
IsWip(ev) == PyBool(WIP_LABEL \in GetPrLabels(ev))

\* The status check_wip creates for is_wip.
WipStatus(is_wip) ==
    IF is_wip = "True"
    THEN [context |-> WIP_CONTEXT, state |-> "failure"]
    ELSE [context |-> WIP_CONTEXT, state |-> "success"]

\* The create_status calls of check_wip.
WipCreates(is_wip, was_wip) ==
    IF is_wip # was_wip THEN <<WipStatus(is_wip)>> ELSE <<>>

CheckWip ==
    /\ Len(wipRuns) < MaxWipRuns
    /\ HandlerLoadsEvent
    /\ LET ev == GhEventValue(event, eventFile)
           found == GetStatus(statuses, 1, WIP_CONTEXT)
           was_wip == IF found # 0 THEN WasWip(statuses[found]) ELSE "None"
           is_wip == IsWip(ev)
           creates == WipCreates(is_wip, was_wip)
       IN  /\ statuses' = creates \o statuses
           /\ wipRuns' = Append(wipRuns,
                  [labels |-> ev.labels, before |-> statuses,
                   creates |-> creates, ret |-> 0])
    /\ UNCHANGED <<cmVars, tiVars, lintVars>>

\* Another workflow reports a status under its own context on the head commit.
OtherStatus(state) ==
    /\ Len(SelectSeq(statuses, LAMBDA st : st.context = "ci")) < MaxOtherStatuses
    /\ statuses' = <<[context |-> "ci", state |-> state]>> \o statuses
    /\ UNCHANGED <<evVars, wipRuns, cmVars, tiVars, lintVars>>

\* The next workflow run: a new process (GH_EVENT = CachedGitHubActionEvent())
\* with the event of that run, whose labels are those the pull request has then.
NewRun(labels) ==
    /\ wipRuns # <<>>
    /\ Len(wipRuns) < MaxWipRuns
    /\ event # NoneValue
    /\ eventFile' = [eventFile EXCEPT !.labels = labels]
    /\ event' = NoneValue
    /\ fileReads' = 0
    /\ UNCHANGED <<evCalls, statuses, wipRuns, cmVars, tiVars, lintVars>>

(***************************************************************************)
(* lint and annotate_check.  A path is a string relative to the working    *)
(* directory; tmpFiles holds paths relative to the temporary directory.    *)
(* External commands (jupyter nbconvert, flake8) and the HTTP response are *)
(* inputs: their outcomes are chosen nondeterministically.                 *)
(***************************************************************************)
AnnotationLimit == 50

PyPattern == <<"*", ".", "p", "y">>
NbPattern == <<"*", ".", "i", "p", "y", "n", "b">>
PySuffix == <<".", "p", "y">>
NbSuffix == <<".", "i", "p", "y", "n", "b">>

\* The ext lists of lint_py, lint_notebooks and lint_all.
ExtLists == {<<PyPattern>>, <<NbPattern>>, <<PyPattern, NbPattern>>}

\* Files the source tree may hold.
CandidateFiles == {
    <<"a", ".", "p", "y">>,
    <<"a", ".", "i", "p", "y", "n", "b">>,
    <<"s", "/", "b", ".", "i", "p", "y", "n", "b">>,
    <<"b", "u", "i", "l", "d", "/", "c", ".", "p", "y">>,
    <<"v", "e", "n", "v", ".", "p", "y">> }

\* fn.split("/", 1)[0]
RECURSIVE RootDir(_, _)
RootDir(fn, i) ==
    IF i > Len(fn) THEN fn
    ELSE IF fn[i] = "/" THEN SubSeq(fn, 1, i - 1)
    ELSE RootDir(fn, i + 1)

\* root_dir in ["dist", "build", ".ipynb_checkpoints"] or root_dir.startswith("venv")
Skipped(fn) ==
    LET root_dir == RootDir(fn, 1)
    IN  \/ root_dir \in {<<"d", "i", "s", "t">>, <<"b", "u", "i", "l", "d">>,
                         <<".", "i", "p", "y", "n", "b", "_", "c", "h", "e",
                           "c", "k", "p", "o", "i", "n", "t", "s">>}
        \/ StartsWith(root_dir, <<"v", "e", "n", "v">>)

\* iglob(f"**/{pattern}", recursive=True) for a pattern "*<suffix>": the files
\* of the tree, at any depth, whose name ends with the suffix.
Glob(files, pattern) == {fn \in files : EndsWith(fn, Tail(pattern))}

\* chain(*(iglob(...) for pattern in ext)): the files each pattern yields,
\* tagged with the pattern's position; a pattern's files come in any order,
\* after those of the patterns before it.  The conversions done inside the
\* loop add and remove ".py" files only while the last pattern ("*.ipynb") is
\* being iterated, so the files yielded are those present when lint starts.
Chain(files, ext) ==
    {<<i, fn>> : i \in 1..Len(ext), fn \in files} \cap
    UNION {{<<i, fn>> : fn \in Glob(files, ext[i])} : i \in 1..Len(ext)}

\* fn[:-6] + ".py"
ConvertedName(fn) == SubSeq(fn, 1, Len(fn) - 6) \o PySuffix

\* use_linters
UseLinters(checks_api) ==
    IF checks_api THEN {"flake8-json"} ELSE {"flake8-plain"}

\* LINTERS, in insertion order, filtered by use_linters
LinterNames == <<"flake8-plain", "flake8-json">>

ActiveLinters(checks_api) ==
    SelectSeq(LinterNames, LAMBDA n : n \in UseLinters(checks_api))

\* Outcomes of "jupyter nbconvert fn --to script": the exit code and whether
\* fn[:-6] + ".py" was written beside the notebook.
NbOutcomes == [rc : {0, 1}, wrote : BOOLEAN]

\* Findings flake8 --format=json reports for one file.
Finding(line, code) ==
    [line_number |-> line, column_number |-> 1, code |-> code, text |-> <<"t">>]

E501 == <<"E", "5", "0", "1">>
W503 == <<"W", "5", "0", "3">>
C901 == <<"C", "9", "0", "1">>

FindingLists == {
    <<>>,
    <<Finding(1, E501), Finding(2, W503), Finding(3, C901)>>,
    [i \in 1..(AnnotationLimit + 1) |-> Finding(i, E501)] }

\* Outcomes of a linter run: the exit code and the captured output, which is
\* a JSON object keyed by file ("json"), a JSON object with no key
\* ("emptyjson") or text that is not JSON ("text").
LinterOutcomes ==
    {[rc |-> 0, kind |-> "json", findings |-> <<>>]}
    \cup {[rc |-> 1, kind |-> "json", findings |-> f] : f \in FindingLists}
    \cup {[rc |-> 1, kind |-> k, findings |-> <<>>] : k \in {"emptyjson", "text"}}

\* "failure" if li["code"][0] in "EW" else "warning"
AnnotationLevel(code) == IF code[1] \in {"E", "W"} THEN "failure" ELSE "warning"

\* The annotation appended for finding li of file fn.
Annotation(fn, li) ==
    [path |-> fn,
     start_line |-> li.line_number, end_line |-> li.line_number,
     start_column |-> li.column_number, end_column |-> li.column_number,
     annotation_level |-> AnnotationLevel(li.code),
     message |-> li.code \o <<":", " ">> \o li.text]

\* bad[fn] = bad.get(fn, []) + [linter_name]
BadAdd(b, fn, linter_name) ==
    [f \in DOMAIN b \cup {fn} |->
        IF f = fn
        THEN (IF fn \in DOMAIN b THEN b[fn] ELSE <<>>) \o <<linter_name>>
        ELSE b[f]]

\* Mutant of CheckRun: the conclusion is taken from the annotations.
CheckRunByAnnotations(success, anns) ==
    [conclusion |-> IF anns = <<>> THEN "success" ELSE "failure",
     annotations |-> anns]

\* The post_data of annotate_check (name, head_sha, status, title and summary
\* are constants).
CheckRun(success, anns) ==
    [conclusion |-> IF success THEN "success" ELSE "failure",
     annotations |-> anns]

\* lint's return value once the loop is over.
LintReturn(b) == IF DOMAIN b # {} THEN 1 ELSE 0

\* The check runs lint submits once the loop is over.
LintSubmits(b, checks_api, anns) ==
    IF DOMAIN b # {}
    THEN (IF checks_api THEN <<CheckRun(FALSE, anns)>> ELSE <<>>)
    ELSE (IF checks_api THEN <<CheckRun(TRUE, <<>>)>> ELSE <<>>)

\* lint(ext, checks_api) up to the start of the loop: mkdtemp().
LintStart(ext, checks_api) ==
    /\ lintPc = "idle"
    /\ lintPc' = "loop"
    /\ checksApi' = checks_api
    /\ annotations' = <<>>
    /\ bad' = <<>>
    /\ tmpExists' = TRUE
    /\ tmpFiles' = {}
    /\ todo' = Chain(tree, ext)
    /\ tree0' = tree
    /\ UNCHANGED <<tree, posts, lintRet, lintLog>>
    /\ UNCHANGED <<evVars, cmVars, tiVars, wipVars>>

\* The files the chained iterators may yield next.
NextFiles == {e \in todo : \A o \in todo : e[1] <= o[1]}

\* One iteration of the loop over the files, on a file that is skipped.
LintSkip(e) ==
    /\ lintPc = "loop"
    /\ e \in NextFiles
    /\ Skipped(e[2])
    /\ todo' = todo \ {e}
    /\ UNCHANGED <<tree, tree0, tmpExists, tmpFiles, lintPc, checksApi,
                   annotations, bad, posts, lintRet, lintLog>>
    /\ UNCHANGED <<evVars, cmVars, tiVars, wipVars>>

\* The tree after nbconvert ran on notebook fn.
TreeAfterConvert(t, fn, nb) == IF nb.wrote THEN t \cup {ConvertedName(fn)} ELSE t

\* rc != 0 or not os.path.isfile(fn[:-6] + ".py")
ConversionFailed(t, fn, nb) == nb.rc # 0 \/ ConvertedName(fn) \notin t

\* The linter's output cannot be used: json.loads raises, or the object has
\* no first key.
OutputUnusable(lo, checks_api) == lo.rc # 0 /\ checks_api /\ lo.kind # "json"

\* One iteration of the loop over the files, on a file that is linted by the
\* one active linter: conversion of a notebook, the linter run, and the
\* record of its findings.
LintFile(e, nb, lo) ==
    /\ lintPc = "loop"
    /\ e \in NextFiles
    /\ ~Skipped(e[2])
    /\ Len(ActiveLinters(checksApi)) = 1
    /\ LET fn == e[2]
           linter_name == ActiveLinters(checksApi)[1]
           isNb == EndsWith(fn, NbSuffix)
           converted == IF isNb THEN TreeAfterConvert(tree, fn, nb) ELSE tree
       IN  IF isNb /\ ConversionFailed(converted, fn, nb)
           THEN \* raise RuntimeError("Notebook conversion failed")
                /\ lintPc' = "raised"
                /\ tree' = converted
                /\ UNCHANGED <<tmpExists, tmpFiles, todo, annotations, bad,
                               lintLog>>
           ELSE /\ tree' = IF isNb THEN converted \ {ConvertedName(fn)} ELSE tree
                /\ tmpFiles' = IF isNb THEN tmpFiles \cup {ConvertedName(fn)}
                                       ELSE tmpFiles
                /\ lintLog' = Append(lintLog,
                       [fn |-> fn, rc |-> lo.rc,
                        parsed |-> IF lo.rc # 0 /\ checksApi /\ lo.kind = "json"
                                   THEN Len(lo.findings) ELSE 0])
                /\ IF OutputUnusable(lo, checksApi)
                   THEN \* json.loads or the first-key lookup raises
                        /\ lintPc' = "raised"
                        /\ UNCHANGED <<todo, annotations, bad>>
                   ELSE /\ lintPc' = "loop"
                        /\ todo' = todo \ {e}
                        /\ annotations' =
                              IF lo.rc # 0 /\ checksApi
                              THEN annotations \o
                                   [i \in 1..Len(lo.findings) |->
                                       Annotation(fn, lo.findings[i])]
                              ELSE annotations
                        /\ bad' = IF lo.rc # 0
                                  THEN BadAdd(bad, fn, linter_name)
                                  ELSE bad
                /\ UNCHANGED tmpExists
    /\ UNCHANGED <<tree0, checksApi, posts, lintRet>>
    /\ UNCHANGED <<evVars, cmVars, tiVars, wipVars>>

\* After the loop: rmtree(tempdir), the check run (annotate_check raises on
\* an error status of the response) and the return.
LintFinish(httpOk) ==
    /\ lintPc = "loop"
    /\ todo = {}
    /\ tmpExists' = FALSE
    /\ tmpFiles' = {}
    /\ LET submits == LintSubmits(bad, checksApi, annotations)
       IN  /\ posts' = posts \o submits
           /\ IF submits # <<>>
              THEN HandlerLoadsEvent
              ELSE UNCHANGED evVars
           /\ IF submits # <<>> /\ ~httpOk
              THEN lintPc' = "raised" /\ UNCHANGED lintRet
              ELSE lintPc' = "returned" /\ lintRet' = LintReturn(bad)
    /\ UNCHANGED <<tree, tree0, todo, checksApi, annotations, bad, lintLog>>
    /\ UNCHANGED <<cmVars, tiVars, wipVars>>

(***************************************************************************)
(* Initial states and specifications.  Each specification runs one part of *)
(* the module from the states that part can start in; the variables of the *)
(* other parts stay at their initial values.                               *)
(***************************************************************************)
DefaultPayload == [kind |-> "dict", labels |-> {}, title |-> <<>>]

\* Sequences over S of length at most n.
RECURSIVE SeqsUpTo(_, _)
SeqsUpTo(S, n) ==
    IF n = 0 THEN {<<>>}
    ELSE LET shorter == SeqsUpTo(S, n - 1)
         IN  shorter \cup {Append(q, x) : q \in shorter, x \in S}

EvInit(payloads) ==
    /\ eventFile \in payloads
    /\ event = NoneValue
    /\ fileReads = 0
    /\ evCalls = 0

CmInit(lists) ==
    /\ comments \in lists
    /\ postCalls = <<>>

TiInit(titles) ==
    /\ prTitle \in titles
    /\ titleRuns = <<>>

WipInit(lists) ==
    /\ statuses \in lists
    /\ wipRuns = <<>>

LintInit(trees) ==
    /\ tree \in trees
    /\ tree0 = tree
    /\ tmpExists = FALSE
    /\ tmpFiles = {}
    /\ lintPc = "idle"
    /\ todo = {}
    /\ checksApi = TRUE
    /\ annotations = <<>>
    /\ bad = <<>>
    /\ posts = <<>>
    /\ lintRet = -1
    /\ lintLog = <<>>

\* The event cache: any payload, a JSON null included.
InitEvent ==
    /\ EvInit(EventPayloads \cup {NoneValue})
    /\ CmInit({<<>>})
    /\ TiInit({<<>>})
    /\ WipInit({<<>>})
    /\ LintInit({{}})

NextEvent == GhEventCall

SpecEvent == InitEvent /\ [][NextEvent]_vars

\* Comments a pull request may hold before the first call: a comment of a
\* person, tagged comments, a marker followed by other text, and a comment
\* that quotes a marker.
InitBodies == {
    <<"h", "i">>,
    FullBody(HtmlTag(<<"a">>), <<"x">>),
    HtmlTag(<<"a", "_", "b">>) \o <<"z">>,
    <<">", " ">> \o HtmlTag(<<"a">>) }

AllTags == Tags \cup {<<"a", "b">>, <<>>}

TaggedAtMostOnce(cs) == \A tag \in AllTags : CountTagged(cs, tag) <= 1

InitCommentLists ==
    {cs \in SeqsUpTo(InitBodies, MaxInitComments) : TaggedAtMostOnce(cs)}

InitComments ==
    /\ EvInit({DefaultPayload})
    /\ CmInit(InitCommentLists)
    /\ TiInit({<<>>})
    /\ WipInit({<<>>})
    /\ LintInit({{}})

NextComments == \E tag \in Tags, body \in Bodies : PostTaggedComment(tag, body)

SpecComments == InitComments /\ [][NextComments]_vars

\* Titles: concatenations of at most MaxTitleTokens pieces.
TitleTokens == {
    <<"A">>, <<"a">>, <<"0">>, <<"1">>, <<",">>, <<" ">>, <<":">>,
    <<"A", "B", "-", "1">>, <<",", " ">>, <<":", " ">> }

RECURSIVE TitlesUpTo(_)
TitlesUpTo(n) ==
    IF n = 0 THEN {<<>>}
    ELSE LET shorter == TitlesUpTo(n - 1)
         IN  shorter \cup {t \o k : t \in shorter, k \in TitleTokens}

StaleJiraComment == FullBody(HtmlTag(JiraTag), <<"o", "l", "d">>)

InitTitle ==
    /\ EvInit({DefaultPayload})
    /\ CmInit({<<>>, <<StaleJiraComment>>})
    /\ TiInit(TitlesUpTo(MaxTitleTokens))
    /\ WipInit({<<>>})
    /\ LintInit({{}})

NextTitle == CheckPrTitle \/ TestPrTitle

SpecTitle == InitTitle /\ [][NextTitle]_vars

InitStatusLists ==
    SeqsUpTo([context : Contexts, state : StatusStates], MaxInitStatuses)

\* Label sets of the pull request: without the label, with it, with a label
\* that differs in case only, with it among others.
WipLabelSets == {{}, {WIP_LABEL}, {"Draft", "bug"}, {WIP_LABEL, "bug"}}

InitWip ==
    /\ EvInit([kind : {"dict"}, labels : WipLabelSets, title : {<<>>}])
    /\ CmInit({<<>>})
    /\ TiInit({<<>>})
    /\ WipInit(InitStatusLists)
    /\ LintInit({{}})

NextWip ==
    \/ CheckWip
    \/ \E state \in {"failure", "success"} : OtherStatus(state)
    \/ \E labels \in WipLabelSets : NewRun(labels)

SpecWip == InitWip /\ [][NextWip]_vars

InitTrees == {t \in SUBSET CandidateFiles : Cardinality(t) <= MaxTreeFiles}

InitLint ==
    /\ EvInit({DefaultPayload})
    /\ CmInit({<<>>})
    /\ TiInit({<<>>})
    /\ WipInit({<<>>})
    /\ LintInit(InitTrees)

NextLint ==
    \/ \E ext \in ExtLists, checks_api \in BOOLEAN : LintStart(ext, checks_api)
    \/ \E e \in todo : LintSkip(e)
    \/ \E e \in todo, nb \in NbOutcomes, lo \in LinterOutcomes : LintFile(e, nb, lo)
    \/ \E httpOk \in BOOLEAN : LintFinish(httpOk)

SpecLint == InitLint /\ [][NextLint]_vars

(***************************************************************************)
(* Properties.                                                             *)
(***************************************************************************)
Marker(tag) == HtmlTag(Normalize(tag))

MatchingIndexes(cs, tag) == {i \in 1..Len(cs) : StartsWith(cs[i], Marker(tag))}

Min(S) == CHOOSE x \in S : \A y \in S : x <= y

\* What the claim says one call does to the comment list.
CallCreatesOrEditsFirst(r) ==
    LET m == MatchingIndexes(r.before, r.tag)
        full == FullBody(Marker(r.tag), r.body)
    IN  IF m = {}
        THEN /\ r.after = Append(r.before, full)
             /\ Len(r.calls) = 1
             /\ r.calls[1].op = "create"
        ELSE /\ Len(r.after) = Len(r.before)
             /\ \A i \in 1..Len(r.before) :
                   r.after[i] = IF i = Min(m) THEN full ELSE r.before[i]
             /\ \A k \in 1..Len(r.calls) :
                   r.calls[k].op = "edit" /\ r.calls[k].index = Min(m)

\* C1: starting from a comment list with at most one comment per tag marker,
\* after any sequence of post_tagged_comment calls the list still holds at
\* most one comment starting with the marker of each normalized tag; a call
\* creates a comment only when no comment starts with its marker, and
\* otherwise edits the first match in place.
C1_OneCommentPerTag ==
    /\ TaggedAtMostOnce(comments)
    /\ \A k \in 1..Len(postCalls) : CallCreatesOrEditsFirst(postCalls[k])

\* Two calls with tags "a b" and "a_b", which normalize to one marker: the
\* first created the comment, the second edited it.
C1_Witness ==
    /\ Len(postCalls) = 2
    /\ postCalls[1].tag = <<"a", " ", "b">>
    /\ postCalls[2].tag = <<"a", "_", "b">>
    /\ Len(postCalls[1].calls) = 1 /\ postCalls[1].calls[1].op = "create"
    /\ Len(postCalls[2].calls) = 1 /\ postCalls[2].calls[1].op = "edit"

\* C2: of two calls in a row with the same tag, a second call with the same
\* body leaves exactly one comment for the tag and issues no create and no
\* edit; a second call with a different body issues exactly one edit and no
\* create, and the number of comments is unchanged.
C2_RepeatedPost ==
    \A k \in 1..(Len(postCalls) - 1) :
        LET first == postCalls[k]
            second == postCalls[k + 1]
        IN  first.tag = second.tag =>
              IF first.body = second.body
              THEN /\ second.calls = <<>>
                   /\ CountTagged(second.after, second.tag) = 1
              ELSE /\ Len(second.calls) = 1
                   /\ second.calls[1].op = "edit"
                   /\ Len(second.after) = Len(second.before)

\* Three calls with one tag: the first creates, the second repeats the body,
\* the third changes it.
C2_Witness ==
    /\ Len(postCalls) = 3
    /\ postCalls[1].tag = postCalls[2].tag
    /\ postCalls[2].tag = postCalls[3].tag
    /\ postCalls[1].body = postCalls[2].body
    /\ postCalls[2].body # postCalls[3].body
    /\ Len(postCalls[1].calls) = 1 /\ postCalls[1].calls[1].op = "create"

\* was_failing as the claim defines it, on the statuses before the call.
DraftStatuses(sts) == SelectSeq(sts, LAMBDA st : st.context = "Draft")

WasFailing(sts) ==
    IF DraftStatuses(sts) = <<>> THEN "None"
    ELSE IF DraftStatuses(sts)[1].state = "success" THEN "False"
    ELSE "True"

IsDraft(labels) == IF "draft" \in labels THEN "True" ELSE "False"

\* Two check_wip calls in a row with no label change in between.
ConsecutiveSameLabels(k) ==
    /\ k + 1 <= Len(wipRuns)
    /\ wipRuns[k].labels = wipRuns[k + 1].labels

\* C3 as stated: two check_wip calls in a row with no label change make
\* exactly one create_status call in total, and the second call makes none.
C3_ExactlyOneCreate ==
    \A k \in 1..Len(wipRuns) :
        ConsecutiveSameLabels(k) =>
            /\ Len(wipRuns[k].creates) + Len(wipRuns[k + 1].creates) = 1
            /\ wipRuns[k + 1].creates = <<>>

\* C3 amended: two check_wip calls in a row with no label change make exactly
\* one create_status call in total when is_draft differs from was_failing
\* before the first call and none when they agree, and the second call makes
\* none in either case.
C3_AtMostOneCreate ==
    \A k \in 1..Len(wipRuns) :
        ConsecutiveSameLabels(k) =>
            /\ Len(wipRuns[k].creates) + Len(wipRuns[k + 1].creates) =
                  IF IsDraft(wipRuns[k].labels) # WasFailing(wipRuns[k].before)
                  THEN 1 ELSE 0
            /\ wipRuns[k + 1].creates = <<>>

\* Two calls in a row on the same labels, the first of which created a
\* status, with a status of another context reported in between.
C3_Witness ==
    /\ Len(wipRuns) = 2
    /\ wipRuns[1].labels = wipRuns[2].labels
    /\ Len(wipRuns[1].creates) = 1
    /\ Len(wipRuns[2].before) = Len(wipRuns[1].before) + 2

\* C4: check_wip creates a status iff is_draft differs from was_failing; the
\* status has state "failure" when is_draft and "success" otherwise, under
\* context "Draft"; when the two are equal it makes no write; it returns 0.
C4_CreatesIffChanged ==
    \A k \in 1..Len(wipRuns) :
        LET r == wipRuns[k]
        IN  /\ r.ret = 0
            /\ IF IsDraft(r.labels) # WasFailing(r.before)
               THEN r.creates =
                      <<[context |-> "Draft",
                         state |-> IF IsDraft(r.labels) = "True"
                                   THEN "failure" ELSE "success"]>>
               ELSE r.creates = <<>>

\* A call that finds the most recent "Draft" status pending on a labelled
\* pull request and writes nothing, then a call after the label was removed
\* that writes "success".
C4_Witness ==
    /\ Len(wipRuns) = 2
    /\ "draft" \in wipRuns[1].labels
    /\ DraftStatuses(wipRuns[1].before) # <<>>
    /\ DraftStatuses(wipRuns[1].before)[1].state = "pending"
    /\ wipRuns[1].creates = <<>>
    /\ "draft" \notin wipRuns[2].labels
    /\ Len(wipRuns[2].creates) = 1

\* C5: within one process the event file is read at most once, whatever the
\* parsed payload is.
C5_ReadAtMostOnce == fileReads <= 1

\* A ticket reference: a key of two or more uppercase letters, "-", a positive
\* integer with no leading zero.
TicketRef(s) ==
    \E k \in 2..Len(s) :
        /\ \A i \in 1..k : s[i] \in UpperChars
        /\ Len(s) >= k + 2
        /\ s[k + 1] = "-"
        /\ s[k + 2] \in {"1", "2", "3", "4", "5", "6", "7", "8", "9"}
        /\ \A i \in (k + 3)..Len(s) : s[i] \in DigitChars

\* One or more ticket references separated by ", ".
RECURSIVE RefList(_)
RefList(s) ==
    \/ TicketRef(s)
    \/ \E j \in 1..(Len(s) - 3) :
          /\ s[j + 1] = ","
          /\ s[j + 2] = " "
          /\ TicketRef(SubSeq(s, 1, j))
          /\ RefList(SubSeq(s, j + 3, Len(s)))

BeginsWithRefs(title) ==
    \E n \in 2..(Len(title) - 1) :
        /\ title[n] = ":"
        /\ title[n + 1] = " "
        /\ RefList(SubSeq(title, 1, n - 1))

\* C6: check_pr_title returns 0 if the title begins with one or more
\* ", "-separated ticket references followed by ": " and 1 for every other
\* title; a tagged comment is posted or updated only on the return-0 path.
C6_TitleVerdict ==
    \A k \in 1..Len(titleRuns) :
        LET r == titleRuns[k]
        IN  /\ r.ret = IF BeginsWithRefs(r.title) THEN 0 ELSE 1
            /\ r.ret = 1 => ~r.posted /\ r.calls = <<>> /\ r.after = r.before
            /\ r.ret = 0 => r.posted

\* check_pr_title accepted a title of the pull request with two references
\* and updated the existing comment.
C6_Witness ==
    /\ Len(titleRuns) = 1
    /\ titleRuns[1].title =
          <<"A", "B", "-", "1", ",", " ", "A", "B", "-", "1", ":", " ">>
    /\ titleRuns[1].ret = 0
    /\ Len(titleRuns[1].calls) = 1
    /\ titleRuns[1].calls[1].op = "edit"

LintEnded == lintPc \in {"returned", "raised"}

\* C7: on every way a lint invocation can end, the temporary directory no
\* longer exists afterwards.
C7_TempDirReleased == LintEnded => ~tmpExists

NonZeroRuns == {k \in 1..Len(lintLog) : lintLog[k].rc # 0}

RECURSIVE ParsedTotal(_)
ParsedTotal(k) == IF k = 0 THEN 0 ELSE lintLog[k].parsed + ParsedTotal(k - 1)

\* C8: in checks mode a lint invocation that returns has submitted exactly
\* one check run: "failure" with all collected annotations and return value 1
\* if a linter run exited non-zero, "success" with no annotation and return
\* value 0 otherwise.  lint returns 0 only if no file was recorded as bad.
C8_OneCheckRun ==
    lintPc = "returned" =>
        /\ lintRet = 0 => DOMAIN bad = {}
        /\ checksApi =>
            /\ Len(posts) = 1
            /\ IF NonZeroRuns # {}
               THEN /\ posts[1].conclusion = "failure"
                    /\ posts[1].annotations = annotations
                    /\ Len(posts[1].annotations) = ParsedTotal(Len(lintLog))
                    /\ lintRet = 1
               ELSE /\ posts[1].conclusion = "success"
                    /\ posts[1].annotations = <<>>
                    /\ lintRet = 0

\* lint_all returned 1 after one file passed and another had findings.
C8_Witness ==
    /\ lintPc = "returned"
    /\ checksApi
    /\ Len(lintLog) = 2
    /\ lintLog[1].rc = 0
    /\ lintLog[2].rc # 0
    /\ Len(annotations) = 3
    /\ lintRet = 1

\* C9: no check-run POST of annotate_check carries more than 50 annotations.
C9_AnnotationLimit ==
    \A k \in 1..Len(posts) : Len(posts[k].annotations) <= AnnotationLimit

\* C10: a lint invocation that returns leaves the files of the source tree
\* as they were.
C10_TreeUnchanged == lintPc = "returned" => tree = tree0

====
